---- MODULE Spec2Model ----
(***************************************************************************)
(* Model of package pageable (src/pagable.go): the process-wide settings   *)
(* defaultRpp / use0Page / recovery, the page query PageQuery and the      *)
(* navigation methods of *Response.                                        *)
(*                                                                         *)
(* The gorm handle is an external collaborator.  Of it the model keeps the *)
(* number of rows the handle's filters match (rows, fixed for a behaviour) *)
(* and, per query, whether the Count step or the Find step reported a      *)
(* failure.  As in the documented usage (DB.Model(..).Where(..)) the       *)
(* handle accumulates the failure of either step in its Error field, which *)
(* PageQuery reads once, after both steps.                                 *)
(***************************************************************************)
EXTENDS Integers, Sequences, FiniteSets

\* ------------------------------------------------------------------ bounds
MaxPage == 2        \* largest page number a caller passes to PageQuery
MaxRpp == 2         \* largest rows-per-page argument
MaxNeg == 1         \* page and rpp arguments go down to -MaxNeg
MaxRows == 2        \* largest number of rows the query matches

InitialRpp == 25    \* init(): SetDefaultRPP(25)

PageArgs == (0 - MaxNeg)..MaxPage
RppArgs == (0 - MaxNeg)..MaxRpp
RppSettings == {0 - MaxNeg, 0, 1, MaxRpp}    \* arguments of SetDefaultRPP
RowCounts == 0..MaxRows
\* pages the navigation methods may ask for: one step beyond the caller's
NavPages == (0 - MaxNeg - 1)..(MaxPage + 1)

Nil == "nil"                        \* Go's nil error
NilResponse == [isNil |-> TRUE]     \* Go's nil *Response
ErrInvalidRpp == "invalid input rpp"
ErrCount == "count failed"
ErrFind == "find failed"
Failures == {Nil, ErrCount, ErrFind}    \* what the handle reports in one query
Handlers == {"defaultRecovery", "passThrough"}

VARIABLES
    defaultRpp,     \* var defaultRpp int
    use0Page,       \* var use0Page bool
    recovery,       \* var recovery recoveryHandler
    setRet,         \* argument and returned error of the latest SetDefaultRPP
    rows,           \* rows matched by the query handle (external table)
    call            \* the latest run of PageQuery: the receiver it was
                    \* reached through, arguments, window, result

vars == <<defaultRpp, use0Page, recovery, setRet, rows, call>>

\* ------------------------------------------------------- Go int arithmetic
Abs(x) == IF x < 0 THEN 0 - x ELSE x

\* Go's / on ints truncates toward zero (b # 0)
GoDiv(a, b) ==
    LET q == Abs(a) \div Abs(b)
    IN  IF (a < 0) = (b < 0) THEN q ELSE 0 - q

\* Go's % : a - b * (a / b), sign of the dividend
GoMod(a, b) == a - b * GoDiv(a, b)

\* ---------------------------------------------------------- getLimitOffset
getLimitOffsetNoClamp(page, rpp) ==
    LET r == IF rpp < 1 THEN defaultRpp ELSE rpp
    IN  [limit |-> r, offset |-> page * r]

getLimitOffset(page, rpp) ==
    LET p == IF page < 0 THEN 0 ELSE page
        r == IF rpp < 1 THEN defaultRpp ELSE rpp
    IN  [limit |-> r, offset |-> p * r]

\* PageQuery, "get limit and offSet"
Window(page, rawPerPage) ==
    IF ~use0Page
    THEN getLimitOffset(page - 1, rawPerPage)
    ELSE getLimitOffset(page, rawPerPage)

\* ------------------------------------------------------------- data source
QueryErrorCountOnly(failure) ==
    IF failure = ErrCount THEN failure ELSE Nil

\* queryHandler.Error after Count and Limit/Offset/Find: the failure of
\* either step stays on the handle
QueryError(failure) == failure

\* ---------------------------------------------------------------- metadata
PageCountTruncated(count, rawPerPage) == GoDiv(count, rawPerPage)

\* PageQuery, "get page count" (rawPerPage # 0)
PageCountOf(count, rawPerPage) ==
    LET q == GoDiv(count, rawPerPage)
    IN  IF GoMod(count, rawPerPage) # 0 THEN q + 1 ELSE q

\* the Response PageQuery builds (rawPerPage # 0)
MakeResponse(page, rawPerPage, count) ==
    LET PageCount == PageCountOf(count, rawPerPage)
        empty == (page > PageCount) \/ count = 0
        lastPage == (page = PageCount)
        startRow == IF ~empty THEN page * rawPerPage ELSE 0
        endRow == IF empty THEN 0
                  ELSE IF ~lastPage THEN (page + 1) * rawPerPage - 1
                  ELSE count
    IN  [isNil |-> FALSE,
         PageNow |-> page,
         PageCount |-> PageCount,
         RawPerPage |-> rawPerPage,
         RawCount |-> count,
         FirstPage |-> (page = 1),
         LastPage |-> lastPage,
         Empty |-> empty,
         StartRow |-> startRow,
         EndRow |-> endRow]

\* The pair PageQuery returns.  panicked says the integer-divide-by-zero
\* panic of count / rawPerPage left the function because the installed
\* handler did not recover it; a recovered panic returns the zero values.
Outcome(page, rawPerPage, count, dbErr) ==
    IF dbErr # Nil
    THEN [resp |-> NilResponse, err |-> dbErr, panicked |-> FALSE]
    ELSE IF rawPerPage = 0
    THEN [resp |-> NilResponse, err |-> Nil, panicked |-> (recovery # "defaultRecovery")]
    ELSE [resp |-> MakeResponse(page, rawPerPage, count), err |-> Nil,
          panicked |-> FALSE]

\* One run of PageQuery: the method it was reached through and that
\* method's receiver (NilResponse for a direct call), its arguments, the
\* window it passed to Limit/Offset, what the handle reported, what it
\* returned.
Call(op, recv, page, rawPerPage, failure) ==
    LET w == Window(page, rawPerPage)
        out == Outcome(page, rawPerPage, rows, QueryError(failure))
    IN  [op |-> op, recv |-> recv, page |-> page, rpp |-> rawPerPage,
         limit |-> w.limit, offset |-> w.offset, failure |-> failure,
         resp |-> out.resp, err |-> out.err, panicked |-> out.panicked]

NoCall == [op |-> "none", resp |-> NilResponse]

\* ----------------------------------------------------------------- targets
NextTargetSkips(r) == r.PageNow + 2

NextTarget(r) == r.PageNow + 1
PrevTarget(r) == r.PageNow - 1
EndTarget(r) == r.PageCount
FirstTarget(r) == IF use0Page THEN 0 ELSE 1

\* -------------------------------------------------------------------- Init
Init ==
    /\ defaultRpp = InitialRpp
    /\ use0Page = FALSE
    /\ recovery = "defaultRecovery"
    /\ setRet = [rpp |-> InitialRpp, err |-> Nil]
    /\ rows \in RowCounts
    /\ call = NoCall

\* ----------------------------------------------------------------- actions
SetRecovery(handler) ==
    /\ recovery' = handler
    /\ UNCHANGED <<defaultRpp, use0Page, setRet, rows, call>>

SetDefaultRPPLax(rpp) ==
    /\ IF rpp < 0
       THEN /\ setRet' = [rpp |-> rpp, err |-> ErrInvalidRpp]
            /\ UNCHANGED defaultRpp
       ELSE /\ defaultRpp' = rpp
            /\ setRet' = [rpp |-> rpp, err |-> Nil]
    /\ UNCHANGED <<use0Page, recovery, rows, call>>

SetDefaultRPP(rpp) ==
    /\ IF rpp < 1
       THEN /\ setRet' = [rpp |-> rpp, err |-> ErrInvalidRpp]
            /\ UNCHANGED defaultRpp
       ELSE /\ defaultRpp' = rpp
            /\ setRet' = [rpp |-> rpp, err |-> Nil]
    /\ UNCHANGED <<use0Page, recovery, rows, call>>

Use0AsFirstPage ==
    /\ use0Page' = TRUE
    /\ UNCHANGED <<defaultRpp, recovery, setRet, rows, call>>

\* PageQuery called by the application
PageQuery(page, rawPerPage, failure) ==
    /\ call' = Call("PageQuery", NilResponse, page, rawPerPage, failure)
    /\ UNCHANGED <<defaultRpp, use0Page, recovery, setRet, rows>>

\* r.GetXPage() on the Response r the latest query returned
Navigate(op, page, failure) ==
    /\ ~call.resp.isNil
    /\ page \in NavPages
    /\ call' = Call(op, call.resp, page, call.resp.RawPerPage, failure)
    /\ UNCHANGED <<defaultRpp, use0Page, recovery, setRet, rows>>

GetNextPage(failure) ==
    /\ ~call.resp.isNil
    /\ Navigate("GetNextPage", NextTarget(call.resp), failure)

GetLastPage(failure) ==
    /\ ~call.resp.isNil
    /\ Navigate("GetLastPage", PrevTarget(call.resp), failure)

GetEndPage(failure) ==
    /\ ~call.resp.isNil
    /\ Navigate("GetEndPage", EndTarget(call.resp), failure)

GetFirstPage(failure) ==
    /\ ~call.resp.isNil
    /\ Navigate("GetFirstPage", FirstTarget(call.resp), failure)

Next ==
    \/ \E h \in Handlers : SetRecovery(h)
    \/ \E n \in RppSettings : SetDefaultRPP(n)
    \/ Use0AsFirstPage
    \/ \E p \in PageArgs, r \in RppArgs, f \in Failures : PageQuery(p, r, f)
    \/ \E f \in Failures : GetNextPage(f)
    \/ \E f \in Failures : GetLastPage(f)
    \/ \E f \in Failures : GetEndPage(f)
    \/ \E f \in Failures : GetFirstPage(f)

Spec == Init /\ [][Next]_vars

\* ================================================================ claims
Ran == call.op # "none"
HasResp == ~call.resp.isNil
Max0(x) == IF x < 0 THEN 0 ELSE x

\* ceil(a / b) for a >= 0, b >= 1: the least n with n * b >= a
CeilDiv(a, b) == CHOOSE n \in 0..a : n * b >= a /\ (n = 0 \/ (n - 1) * b < a)

\* C1: a query with pageSize >= 1 during which the data source reported a
\* failure (in the count step or in the fetch step) returns an error and no
\* Response; a Response is returned only when neither step failed.
C1_FailureGivesNoResponse ==
    (Ran /\ call.rpp >= 1) =>
        /\ call.failure # Nil => (call.err # Nil /\ call.resp.isNil)
        /\ HasResp => (call.failure = Nil /\ call.err = Nil)

C1_Witness ==
    Ran /\ call.rpp >= 1 /\ call.failure = ErrFind /\ call.err = ErrFind
        /\ call.resp.isNil

\* C2: for pageSize >= 1 the Response of a successful query has
\* PageCount = ceil(RawCount / pageSize), RawCount being the rows counted,
\* and PageCount = 0 exactly when RawCount = 0.
C2_PageCountIsCeiling ==
    (Ran /\ HasResp /\ call.rpp >= 1) =>
        /\ call.resp.RawCount = rows
        /\ call.resp.PageCount = CeilDiv(rows, call.rpp)
        /\ (call.resp.PageCount = 0) <=> (rows = 0)

C2_Witness ==
    Ran /\ HasResp /\ call.rpp >= 2 /\ rows >= 1 /\ rows < call.rpp
        /\ call.resp.PageCount = 1

\* C3: the StartRow of a non-empty Response equals the offset the same query
\* passed to the data source (stated for pageSize >= 1 and pages from 1 on,
\* where neither the page-size default nor the clamping of the page plays
\* a part).
C3_StartRowIsOffset ==
    (Ran /\ HasResp /\ ~call.resp.Empty /\ call.rpp >= 1 /\ call.page >= 1) =>
        call.resp.StartRow = call.offset

\* C4: FirstPage is true exactly when the requested page is the configured
\* first page: 1 under the 1-indexed convention, 0 once Use0AsFirstPage ran
\* (stated for pageSize >= 1).
C4_FirstPageFollowsConvention ==
    [][(call' # call /\ ~call'.resp.isNil /\ call'.rpp >= 1) =>
          (call'.resp.FirstPage <=> (call'.page = IF use0Page THEN 0 ELSE 1))]_vars

\* C5: with page 0 as the first page, a successful query (rows >= 1,
\* pageSize >= 1) for page PageCount - 1, the page holding the final row,
\* has offset = page * pageSize, LastPage true and EndRow = RawCount.
C5_ZeroIndexedLastPage ==
    [][(/\ call' # call
        /\ use0Page
        /\ ~call'.resp.isNil
        /\ call'.rpp >= 1
        /\ call'.resp.RawCount >= 1
        /\ call'.page = call'.resp.PageCount - 1) =>
          (/\ call'.offset = call'.page * call'.rpp
           /\ call'.resp.LastPage
           /\ call'.resp.EndRow = call'.resp.RawCount)]_vars

\* C6: a query with pageSize < 1 on a data source that does not fail returns
\* a Response, with the window and the page count of the default page size.
C6_InvalidRppUsesDefault ==
    [][(call' # call /\ call'.rpp < 1 /\ call'.failure = Nil) =>
          (/\ ~call'.resp.isNil
           /\ call'.limit = defaultRpp
           /\ call'.offset =
                 Max0(IF use0Page THEN call'.page ELSE call'.page - 1) * defaultRpp
           /\ call'.resp.PageCount = CeilDiv(rows, defaultRpp))]_vars

\* C7: r.GetNextPage() followed by GetLastPage() on its result, neither
\* failing, the table unchanged and pageSize >= 1, gives a Response with the
\* PageNow, PageCount and RawCount of r.
C7_NextThenPreviousRoundTrip ==
    [][(/\ call.op = "GetNextPage"
        /\ ~call.resp.isNil
        /\ call'.op = "GetLastPage"
        /\ call'.recv = call.resp
        /\ ~call'.resp.isNil
        /\ call.recv.RawPerPage >= 1) =>
          (/\ call'.resp.PageNow = call.recv.PageNow
           /\ call'.resp.PageCount = call.recv.PageCount
           /\ call'.resp.RawCount = call.recv.RawCount)]_vars

\* a receiver on page MaxPage + 1 can only have come from GetNextPage
C7_Witness ==
    /\ call.op = "GetLastPage"
    /\ HasResp
    /\ call.rpp >= 1
    /\ call.recv.PageNow = MaxPage + 1
    /\ call.resp.PageNow = MaxPage

\* C8: the default page size is 25 initially and >= 1 always;
\* SetDefaultRPP(n) with n < 1 returns an error and changes neither setting,
\* with n >= 1 it returns nil and sets the default to n; no query changes
\* the default.
C8_Step ==
    /\ (setRet' # setRet \/ defaultRpp' # defaultRpp) =>
          IF setRet'.rpp < 1
          THEN /\ setRet'.err = ErrInvalidRpp
               /\ defaultRpp' = defaultRpp
               /\ use0Page' = use0Page
          ELSE /\ setRet'.err = Nil
               /\ defaultRpp' = setRet'.rpp
    /\ call' # call => (defaultRpp' = defaultRpp /\ setRet' = setRet)

C8_DefaultRppValid ==
    /\ defaultRpp = InitialRpp
    /\ [](defaultRpp >= 1)
    /\ [][C8_Step]_vars

C8_Witness ==
    setRet.rpp < 1 /\ setRet.err = ErrInvalidRpp /\ defaultRpp = 1

\* C9 as stated: GetLastPage() on a Response with FirstPage true
\* (pageSize >= 1, data source not failing) returns an empty Response,
\* StartRow = EndRow = 0, after a fetch with offset 0.
C9_PreviousOfFirstIsEmpty ==
    (/\ call.op = "GetLastPage"
     /\ call.recv.FirstPage
     /\ call.rpp >= 1
     /\ call.failure = Nil) =>
        (/\ HasResp
         /\ call.err = Nil
         /\ call.offset = 0
         /\ call.resp.Empty
         /\ call.resp.StartRow = 0
         /\ call.resp.EndRow = 0)

\* C9 amended: GetLastPage() on a Response with FirstPage true
\* (pageSize >= 1, data source not failing) returns a Response after a fetch
\* with offset 0; the Response is empty (StartRow = EndRow = 0) exactly when
\* RawCount = 0, and otherwise has StartRow = 0 and EndRow = pageSize - 1.
C9_PreviousOfFirstIsPageZero ==
    (/\ call.op = "GetLastPage"
     /\ call.recv.FirstPage
     /\ call.rpp >= 1
     /\ call.failure = Nil) =>
        (/\ HasResp
         /\ call.err = Nil
         /\ call.offset = 0
         /\ call.resp.PageNow = 0
         /\ call.resp.Empty <=> (call.resp.RawCount = 0)
         /\ call.resp.StartRow = 0
         /\ call.resp.EndRow = IF call.resp.Empty THEN 0 ELSE call.rpp - 1)

C9_Witness ==
    /\ call.op = "GetLastPage"
    /\ call.recv.FirstPage
    /\ call.rpp >= 1
    /\ HasResp
    /\ ~call.resp.Empty
    /\ call.offset = 0

\* C10: a query that returns gives back exactly one of a Response and an
\* error, never neither.
C10_ResponseXorError ==
    (Ran /\ ~call.panicked) => (HasResp <=> (call.err = Nil))

====
